---- MODULE Spec2Model ----
(***************************************************************************)
(* DarkRiskRadar (core.py): the interactive prompt loop, the construction  *)
(* of a radar, and the steps of DarkRiskRadar.run: headline collection,    *)
(* text scoring, financial and executive scoring, the sector modifier and  *)
(* the weighted aggregation with its status band.                          *)
(*                                                                         *)
(* Numbers.  Python floats are modelled as exact extended rationals        *)
(* <<n, d>>: d > 0 is the fraction n/d in lowest terms, <<1,0>> is +inf,   *)
(* <<-1,0>> is -inf and <<0,0>> is nan.  Rounding error is not modelled.   *)
(* The absent value None is the empty tuple <<>>.                          *)
(***************************************************************************)
EXTENDS Integers, Sequences, FiniteSets, TLC

VARIABLES pc, company_name, ticker, stock, headlines, clf, results,
          analyzer_calls, news_s, legal_s, fin_s, exec_s, sector_mod,
          bs, final_score, status, report

vars == <<pc, company_name, ticker, stock, headlines, clf, results,
          analyzer_calls, news_s, legal_s, fin_s, exec_s, sector_mod,
          bs, final_score, status, report>>

None == <<>>

(***************************************************************************)
(* Bounds of the model.                                                    *)
(***************************************************************************)
\* longest feed drawn from the short titles
MaxFeed == 1
\* number of entries of the one long feed (more than the feed cap)
LongFeedLen == 31
\* most officer records in a fundamentals snapshot
MaxOfficers == 2
\* most short titles in a headline list handed to the text calculator alone
MaxHeadlines == 3

(***************************************************************************)
(* Float arithmetic.                                                       *)
(***************************************************************************)
Abs(x) == IF x < 0 THEN -x ELSE x

Sign(x) == IF x > 0 THEN 1 ELSE IF x < 0 THEN -1 ELSE 0

RECURSIVE GCD(_, _)
GCD(a, b) == IF b = 0 THEN a ELSE GCD(b, a % b)

Norm(n, d) ==
    IF d = 0 THEN <<Sign(n), 0>>
    ELSE LET g == GCD(Abs(n), Abs(d))
             s == Sign(d)
         IN  <<(s * n) \div g, (s * d) \div g>>

R(n) == <<n, 1>>

Frac(n, d) == Norm(n, d)

NInf == <<-1, 0>>
NaN == <<0, 0>>

IsFinite(x) == x[2] # 0

Add(x, y) == Norm(x[1] * y[2] + y[1] * x[2], x[2] * y[2])

Neg(x) == <<-x[1], x[2]>>

Sub(x, y) == Add(x, Neg(y))

Mul(x, y) == Norm(x[1] * y[1], x[2] * y[2])

\* IEEE division: x/0 is +-inf, 0/0 is nan
Div(x, y) == Norm(x[1] * y[2] * (IF y[1] < 0 THEN -1 ELSE 1), x[2] * Abs(y[1]))

\* x < y; every comparison with nan is false
Lt(x, y) ==
    IF x = NaN \/ y = NaN THEN FALSE
    ELSE IF x[2] = 0 /\ y[2] = 0 THEN x[1] < y[1]
    ELSE x[1] * y[2] < y[1] * x[2]

Ge(x, y) ==
    IF x = NaN \/ y = NaN THEN FALSE ELSE ~Lt(x, y)

\* Python min(a, b): b if b < a else a
PyMin(a, b) == IF Lt(b, a) THEN b ELSE a

\* Python max(a, b): b if b > a else a
PyMax(a, b) == IF Lt(a, b) THEN b ELSE a

(***************************************************************************)
(* Text.  A title is a sequence of words; str.lower and the substring test *)
(* `x in y` are given by their tables on the words the model uses.         *)
(***************************************************************************)
LowerWord(w) ==
    CASE w = "Acme" -> "acme"
      [] w = "ACME" -> "acme"
      [] w = "Fraud" -> "fraud"
      [] w = "SEC" -> "sec"
      [] w = "Rival" -> "rival"
      [] w = "CEO" -> "ceo"
      [] w = "CFO" -> "cfo"
      [] w = "COO" -> "coo"
      [] w = "Chief" -> "chief"
      [] w = "Executive" -> "executive"
      [] w = "Officer" -> "officer"
      [] w = "President" -> "president"
      [] w = "General" -> "general"
      [] w = "Counsel" -> "counsel"
      [] w = "Director" -> "director"
      [] w = "EXIT" -> "exit"
      [] w = "Quit" -> "quit"
      [] w = "and" -> "and"
      [] OTHER -> w

Lower(t) == [i \in 1..Len(t) |-> LowerWord(t[i])]

\* proper substrings among the lower-cased words of the model
ProperSubstrings ==
    { <<"sec", "prosecutors">>, <<"lawsuit", "lawsuits">>,
      <<"cto", "director">> }

\* needle in text, for a one-word needle
Contains(text, needle) ==
    \E i \in 1..Len(text) :
        text[i] = needle \/ <<needle, text[i]>> \in ProperSubstrings

(***************************************************************************)
(* Headlines.                                                              *)
(***************************************************************************)
\* headlines[:20]
MaxScored == 20
\* soup.find_all('item')[:30]
FeedCap == 30

Min(a, b) == IF a < b THEN a ELSE b

T_FraudLawsuit == <<"Acme", "Fraud", "lawsuits">>
T_Sued == <<"ACME", "sued">>
T_Profit == <<"Acme", "profit">>
T_Bankruptcy == <<"Acme", "bankruptcy">>
T_Probe == <<"Acme", "prosecutors", "probe">>
T_Rival == <<"Rival", "bankruptcy">>

\* the n-th filler title, "Acme <n>": mentions the company, holds no keyword
FillerTitle(n) == <<"Acme", ToString(n)>>

FillerWords == { ToString(n) : n \in 1..(LongFeedLen + 1) }

Item(t) == [has_title |-> TRUE, title |-> t]

\* an entry whose title is missing: reading it raises
NoTitleItem == [has_title |-> FALSE, title |-> <<>>]

ShortItems ==
    { Item(T_FraudLawsuit), Item(T_Sued), Item(T_Profit), Item(T_Rival),
      NoTitleItem }

RECURSIVE SeqsUpTo(_, _)
SeqsUpTo(S, n) ==
    IF n = 0 THEN { <<>> }
    ELSE LET shorter == SeqsUpTo(S, n - 1)
         IN  shorter \cup { Append(s, x) : s \in shorter, x \in S }

\* one keyword title followed by fillers
LongFeed ==
    [i \in 1..LongFeedLen |->
        IF i = 1 THEN Item(T_FraudLawsuit) ELSE Item(FillerTitle(i - 1))]

\* what the feed request returns: a fault, or the list of its entries
FeedResponses ==
    { [ok |-> FALSE, items |-> <<>>] }
        \cup { [ok |-> TRUE, items |-> s] : s \in SeqsUpTo(ShortItems, MaxFeed) }
        \cup { [ok |-> TRUE, items |-> LongFeed] }

\* what stock.news returns
StockNewsResponses ==
    { [ok |-> FALSE, items |-> <<>>],
      [ok |-> TRUE, items |-> <<>>],
      [ok |-> TRUE, items |-> <<Item(T_Sued)>>],
      [ok |-> TRUE, items |-> <<Item(T_Probe), NoTitleItem, Item(T_Profit)>>] }

\* the for loop over the entries: a title is added when it mentions the company;
\* an entry without a title raises and ends the loop, keeping what was added
RECURSIVE CollectTitles(_, _, _, _)
CollectTitles(items, i, name, acc) ==
    IF i > Len(items) THEN acc
    ELSE IF ~items[i].has_title THEN acc
    ELSE CollectTitles(items, i + 1, name,
            IF Contains(Lower(items[i].title), LowerWord(name))
            THEN acc \cup { items[i].title } ELSE acc)

\* the set built by _get_headlines
HeadlineSet(name, has_stock, feed, news) ==
    LET from_feed ==
            IF feed.ok
            THEN CollectTitles(SubSeq(feed.items, 1, Min(FeedCap, Len(feed.items))),
                               1, name, {})
            ELSE {}
    IN  IF has_stock /\ news.ok
        THEN CollectTitles(news.items, 1, name, from_feed)
        ELSE from_feed

\* list(headlines): a set enumerates in an order the program does not control.
\* The model takes the rotations of one base order and of its reverse.
TitleOrder ==
    <<T_FraudLawsuit, T_Sued, T_Profit, T_Bankruptcy, T_Probe, T_Rival>>
        \o [n \in 1..(LongFeedLen + 1) |-> FillerTitle(n)]

BaseOrder(S) == SelectSeq(TitleOrder, LAMBDA t : t \in S)

Reverse(s) == [i \in 1..Len(s) |-> s[Len(s) + 1 - i]]

Rotations(s) ==
    IF s = <<>> THEN { <<>> }
    ELSE { [i \in 1..Len(s) |-> s[((i - 1 + k) % Len(s)) + 1]] : k \in 0..(Len(s) - 1) }

Orderings(S) == Rotations(BaseOrder(S)) \cup Rotations(Reverse(BaseOrder(S)))

(***************************************************************************)
(* Text scores.                                                            *)
(***************************************************************************)
\* the (label, confidence) pairs the classifier is taken to answer
Answers ==
    { [label |-> "negative", score |-> Frac(9, 10)],
      [label |-> "negative", score |-> R(1)],
      [label |-> "positive", score |-> R(1)],
      [label |-> "neutral", score |-> Frac(1, 2)] }

\* the classifier reads a title without its filler words
Key(t) == SelectSeq(t, LAMBDA w : w \notin FillerWords)

Range(s) == { s[i] : i \in 1..Len(s) }

Keys(hs) == { Key(t) : t \in Range(hs) }

\* self.analyzer(headlines): one answer per headline
Analyze(a, hs) == [i \in 1..Len(hs) |-> a[Key(hs[i])]]

SeverityMap ==
    << <<"bankruptcy", 80>>, <<"fraud", 70>>, <<"indictment", 70>>,
       <<"sec", 40>>, <<"investigation", 40>>, <<"probe", 40>>,
       <<"lawsuit", 20>>, <<"sued", 20>>, <<"litigation", 20>> >>

ContextMultiplier(r) == IF r.label = "negative" THEN r.score ELSE Frac(2, 10)

\* the inner for loop without its break: every keyword found adds its weight
RECURSIVE KeywordLoopNoBreak(_, _, _)
KeywordLoopNoBreak(h_lower, r, i) ==
    IF i > Len(SeverityMap) THEN R(0)
    ELSE Add(IF Contains(h_lower, SeverityMap[i][1])
             THEN Mul(R(SeverityMap[i][2]), ContextMultiplier(r)) ELSE R(0),
             KeywordLoopNoBreak(h_lower, r, i + 1))

\* the inner for loop: what the first keyword found adds to legal_points
RECURSIVE KeywordLoop(_, _, _)
KeywordLoop(h_lower, r, i) ==
    IF i > Len(SeverityMap) THEN R(0)
    ELSE IF Contains(h_lower, SeverityMap[i][1])
         THEN Mul(R(SeverityMap[i][2]), ContextMultiplier(r))
         ELSE KeywordLoop(h_lower, r, i + 1)

NewsDelta(r) ==
    IF r.label = "negative" THEN Mul(r.score, R(100))
    ELSE IF r.label = "positive" THEN Neg(Mul(r.score, R(50)))
    ELSE R(20)

\* the loop over zip(headlines, results): <<news_risk_accum, legal_points>>
RECURSIVE ScoreLoop(_, _, _, _, _)
ScoreLoop(hs, rs, i, news_risk_accum, legal_points) ==
    IF i > Min(Len(hs), Len(rs)) THEN <<news_risk_accum, legal_points>>
    ELSE ScoreLoop(hs, rs, i + 1,
                   Add(news_risk_accum, NewsDelta(rs[i])),
                   Add(legal_points, KeywordLoop(Lower(hs[i]), rs[i], 1)))

Truncate(hl) == SubSeq(hl, 1, Min(MaxScored, Len(hl)))

\* the average taken over every headline collected, not over those scored
TextScoresDivByAll(hl, rs) ==
    LET hs == Truncate(hl)
        acc == ScoreLoop(hs, rs, 1, R(0), R(0))
    IN  << PyMax(R(0), PyMin(R(100), Div(acc[1], R(Len(hl))))),
           PyMin(R(100), acc[2]) >>

\* _calculate_text_scores after the classifier has answered: <<news, legal>>
TextScores(hl, rs) ==
    LET hs == Truncate(hl)
        acc == ScoreLoop(hs, rs, 1, R(0), R(0))
    IN  << PyMax(R(0), PyMin(R(100), Div(acc[1], R(Len(hs))))),
           PyMin(R(100), acc[2]) >>

(***************************************************************************)
(* Financial score.                                                        *)
(***************************************************************************)
LiabilityLabels == <<"Total Liabilities Net Minority Interest", "Total Liabilities">>

\* the figures each row of the most recent column may hold
RowValues(label) ==
    CASE label = "Total Assets" -> { 0, 100 }
      [] label = "Total Liabilities Net Minority Interest" -> { 150, -300 }
      [] label = "Total Liabilities" -> { 50 }
      [] label = "Current Assets" -> { 50, 200 }
      [] label = "Current Liabilities" -> { 0, 100 }

RowLabels ==
    { "Total Assets", "Total Liabilities Net Minority Interest",
      "Total Liabilities", "Current Assets", "Current Liabilities" }

\* every frame with the rows L, one figure per row
RECURSIVE RowsOver(_)
RowsOver(L) ==
    IF L = {} THEN { <<>> }
    ELSE LET l == CHOOSE x \in L : TRUE
         IN  { (l :> v) @@ f : v \in RowValues(l), f \in RowsOver(L \ { l }) }

\* stock.balance_sheet: a fault, or a frame (possibly without rows) whose
\* cells are Python numbers (dtype object) or numpy floats (dtype float64);
\* a division by zero raises with the first and gives inf or nan with the second
BalanceSheets ==
    { [ok |-> FALSE, dtype |-> "object", rows |-> <<>>] }
        \cup { [ok |-> TRUE, dtype |-> d, rows |-> f] :
                 d \in { "object", "float64" },
                 f \in UNION { RowsOver(L) : L \in SUBSET RowLabels } }

ZeroDivisionError(b, divisor) == b.dtype = "object" /\ divisor = 0

\* next((k for k in [...] if k in bs.index), None)
LiabKey(b) ==
    IF LiabilityLabels[1] \in DOMAIN b.rows THEN LiabilityLabels[1]
    ELSE IF LiabilityLabels[2] \in DOMAIN b.rows THEN LiabilityLabels[2]
    ELSE "None"

SolvencyRisk(b) ==
    PyMin(R(100), Mul(Div(R(b.rows[LiabKey(b)]), R(b.rows["Total Assets"])), R(100)))

LiquidityRisk(b) ==
    LET c_ratio == Div(R(b.rows["Current Assets"]), R(b.rows["Current Liabilities"]))
    IN  PyMax(R(0), PyMin(R(100), Mul(Sub(Frac(3, 2), c_ratio), R(100))))

\* _calculate_fin_score: every exception ends in `except: return None`
FinScore(b) ==
    IF ~b.ok THEN None
    ELSE IF DOMAIN b.rows = {} THEN None
    ELSE IF "Total Assets" \notin DOMAIN b.rows THEN None
    ELSE IF LiabKey(b) = "None" THEN None
    ELSE IF ZeroDivisionError(b, b.rows["Total Assets"]) THEN None
    ELSE IF "Current Assets" \notin DOMAIN b.rows THEN None
    ELSE IF "Current Liabilities" \notin DOMAIN b.rows THEN None
    ELSE IF ZeroDivisionError(b, b.rows["Current Liabilities"]) THEN None
    ELSE Add(Mul(SolvencyRisk(b), Frac(1, 2)), Mul(LiquidityRisk(b), Frac(1, 2)))

(***************************************************************************)
(* Executive score.                                                        *)
(***************************************************************************)
OfficerTitles ==
    { <<"CEO">>, <<"Chief", "Executive", "Officer">>, <<"CFO", "and", "COO">>,
      <<"Director">> }

\* an officer record with no 'title' key reads as ''
Officers ==
    { [has_title |-> TRUE, title |-> t] : t \in OfficerTitles }
        \cup { [has_title |-> FALSE, title |-> <<>>] }

\* stock.info as _calculate_exec_score reads it: a fault, no 'companyOfficers'
\* key, or the list of officers
OfficerInfos ==
    { [ok |-> FALSE, has_officers |-> FALSE, officers |-> <<>>],
      [ok |-> TRUE, has_officers |-> FALSE, officers |-> <<>>] }
        \cup { [ok |-> TRUE, has_officers |-> TRUE, officers |-> s] :
                 s \in SeqsUpTo(Officers, MaxOfficers) }

RoleWeights ==
    << <<"ceo", 35>>, <<"cfo", 30>>, <<"coo", 15>>, <<"president", 10>>,
       <<"counsel", 5>>, <<"cto", 5>> >>

\* " ".join([o.get('title', '').lower() for o in officers])
RECURSIVE JoinTitles(_, _)
JoinTitles(officers, i) ==
    IF i > Len(officers) THEN <<>>
    ELSE (IF officers[i].has_title THEN Lower(officers[i].title) ELSE <<>>)
             \o JoinTitles(officers, i + 1)

RECURSIVE RoleLoop(_, _)
RoleLoop(titles, i) ==
    IF i > Len(RoleWeights) THEN R(0)
    ELSE Add(IF Contains(titles, RoleWeights[i][1]) THEN R(0) ELSE R(RoleWeights[i][2]),
             RoleLoop(titles, i + 1))

\* _calculate_exec_score
ExecScore(info) ==
    IF ~info.ok THEN R(50)
    ELSE IF ~info.has_officers \/ info.officers = <<>> THEN R(85)
    ELSE PyMin(R(100), RoleLoop(JoinTitles(info.officers, 1), 1))

(***************************************************************************)
(* Sector modifier.                                                        *)
(***************************************************************************)
HighRisk == { "Real Estate", "Banks - Regional", "Biotechnology", "Cryptocurrency" }

LowRisk == { "Utilities", "Consumer Defensive", "Healthcare Plans" }

\* kw in s, for the sector and industry strings of the model
StrContains(s, kw) ==
    s = kw \/ <<kw, s>> \in { <<"Utilities", "Utilities - Regulated Electric">> }

\* stock.info as _get_sector_modifier reads it; a missing key reads "Unknown"
SectorInfos ==
    { [ok |-> FALSE, sector |-> "Unknown", industry |-> "Unknown"] }
        \cup { [ok |-> TRUE, sector |-> sec, industry |-> ind] :
                 sec \in { "Unknown", "Real Estate", "Utilities", "Technology" },
                 ind \in { "Unknown", "Banks - Regional",
                           "Utilities - Regulated Electric", "Software - Application" } }

\* _get_sector_modifier, the modifier alone
SectorModifier(has_stock, info) ==
    IF ~has_stock THEN R(1)
    ELSE IF ~info.ok THEN R(1)
    ELSE IF \E hr \in HighRisk :
                StrContains(info.industry, hr) \/ StrContains(info.sector, hr)
         THEN Frac(115, 100)
    ELSE IF \E lr \in LowRisk :
                StrContains(info.industry, lr) \/ StrContains(info.sector, lr)
         THEN Frac(90, 100)
    ELSE R(1)

(***************************************************************************)
(* Aggregation.                                                            *)
(***************************************************************************)
SignalOrder == <<"fin", "legal", "exec", "news">>

weights ==
    [fin |-> Frac(40, 100), legal |-> Frac(25, 100),
     exec |-> Frac(20, 100), news |-> Frac(15, 100)]

\* active_metrics: the signals with a value, in the order of raw_scores
ActiveMetrics(raw) == SelectSeq(SignalOrder, LAMBDA k : raw[k] # None)

\* the divisor taken over all four signals, present or not
RECURSIVE TotalWeightOfAll(_, _)
TotalWeightOfAll(active, i) ==
    IF i > Len(SignalOrder) THEN R(0)
    ELSE Add(weights[SignalOrder[i]], TotalWeightOfAll(active, i + 1))

\* sum(self.weights[k] for k in active_metrics), from the i-th on
RECURSIVE TotalWeight(_, _)
TotalWeight(active, i) ==
    IF i > Len(active) THEN R(0)
    ELSE Add(weights[active[i]], TotalWeight(active, i + 1))

RECURSIVE BaseScore(_, _, _, _)
BaseScore(raw, active, total_weight_available, i) ==
    IF i > Len(active) THEN R(0)
    ELSE Add(Mul(raw[active[i]], Div(weights[active[i]], total_weight_available)),
             BaseScore(raw, active, total_weight_available, i + 1))

FinalScore(raw, mod) ==
    LET active == ActiveMetrics(raw)
    IN  PyMin(R(100), Mul(BaseScore(raw, active, TotalWeight(active, 1), 1), mod))

\* the bands with strict comparisons
StatusOfStrict(final) ==
    IF Lt(R(70), final) THEN "CRITICAL"
    ELSE IF Lt(R(40), final) THEN "CAUTION"
    ELSE "STABLE"

StatusOf(final) ==
    IF Ge(final, R(70)) THEN "CRITICAL"
    ELSE IF Ge(final, R(40)) THEN "CAUTION"
    ELSE "STABLE"

(***************************************************************************)
(* The session: the prompt loop, the construction of a radar, and run.     *)
(***************************************************************************)
\* the lines the user may type
RawInputs == { "exit", "EXIT", "Quit", "", "  ", "Acme", " Acme " }

\* str.strip on the lines of the model
Strip(line) ==
    CASE line = "  " -> ""
      [] line = " Acme " -> "Acme"
      [] OTHER -> line

\* the company search: a fault, or the list of quotes, each with or without
\* its 'symbol'
SearchResponses ==
    { [ok |-> FALSE, quotes |-> <<>>],
      [ok |-> TRUE, quotes |-> <<>>],
      [ok |-> TRUE, quotes |-> << [has_symbol |-> FALSE, symbol |-> ""] >>],
      [ok |-> TRUE, quotes |-> << [has_symbol |-> TRUE, symbol |-> "ACME"] >>] }

\* _get_ticker
GetTicker(res) ==
    IF ~res.ok THEN "None"
    ELSE IF res.quotes = <<>> THEN "None"
    ELSE IF ~res.quotes[1].has_symbol THEN "None"
    ELSE res.quotes[1].symbol

\* return 0.0, 0.0 for no headline, with no value in place of the zeros
EmptyTextScoresNone == <<None, None>>

\* return 0.0, 0.0 for no headline
EmptyTextScores == <<R(0), R(0)>>

RawScores == [fin |-> fin_s, legal |-> legal_s, exec |-> exec_s, news |-> news_s]

Init ==
    /\ pc = "prompt"
    /\ company_name = ""
    /\ ticker = "None"
    /\ stock = "None"
    /\ headlines = <<>>
    /\ clf = <<>>
    /\ results = <<>>
    /\ analyzer_calls = 0
    /\ news_s = None
    /\ legal_s = None
    /\ fin_s = None
    /\ exec_s = None
    /\ sector_mod = None
    /\ bs = None
    /\ final_score = None
    /\ status = "None"
    /\ report = "none"

\* input(...).strip(), and the exit test; a new line starts from a clean slate
Prompt ==
    /\ pc = "prompt"
    /\ \E line \in RawInputs :
          LET target == Strip(line)
          IN  /\ pc' = IF LowerWord(target) \in { "exit", "quit", "" }
                       THEN "exited" ELSE "construct"
              /\ company_name' = target
    /\ ticker' = "None"
    /\ stock' = "None"
    /\ headlines' = <<>>
    /\ clf' = <<>>
    /\ results' = <<>>
    /\ analyzer_calls' = 0
    /\ news_s' = None
    /\ legal_s' = None
    /\ fin_s' = None
    /\ exec_s' = None
    /\ sector_mod' = None
    /\ bs' = None
    /\ final_score' = None
    /\ status' = "None"
    /\ report' = "none"

\* DarkRiskRadar(target): the ticker search is guarded, pipeline(...) is not
Construct ==
    /\ pc = "construct"
    /\ company_name' = Strip(company_name)
    /\ \E res \in SearchResponses : ticker' = GetTicker(res)
    /\ \E pipeline_ok \in BOOLEAN :
          IF pipeline_ok
          THEN pc' = "headlines" /\ report' = report
          ELSE pc' = "aborted" /\ report' = "traceback_init"
    /\ UNCHANGED <<stock, headlines, clf, results, analyzer_calls, news_s, legal_s,
                   fin_s, exec_s, sector_mod, bs, final_score, status>>

\* stock = yf.Ticker(...) if self.ticker else None; headlines = _get_headlines(stock)
GetHeadlines ==
    /\ pc = "headlines"
    /\ stock' = IF ticker # "None" THEN "Ticker" ELSE "None"
    /\ \E feed \in FeedResponses, news \in StockNewsResponses :
          headlines' \in Orderings(HeadlineSet(company_name, ticker # "None", feed, news))
    /\ pc' = "text"
    /\ UNCHANGED <<company_name, ticker, clf, results, analyzer_calls, news_s, legal_s,
                   fin_s, exec_s, sector_mod, bs, final_score, status, report>>

\* news_s, legal_s = _calculate_text_scores(headlines); the classifier call is
\* not guarded, so its fault leaves run, the loop and the process
CalculateTextScores ==
    /\ pc = "text"
    /\ IF headlines = <<>>
       THEN /\ news_s' = EmptyTextScores[1]
            /\ legal_s' = EmptyTextScores[2]
            /\ pc' = "fin"
            /\ UNCHANGED <<clf, results, analyzer_calls, report>>
       ELSE /\ analyzer_calls' = analyzer_calls + 1
            /\ \/ /\ pc' = "aborted"
                  /\ report' = "traceback_run"
                  /\ UNCHANGED <<clf, results, news_s, legal_s>>
               \/ \E a \in [Keys(headlines) -> Answers] :
                     LET rs == Analyze(a, Truncate(headlines))
                     IN  /\ clf' = a
                         /\ results' = rs
                         /\ news_s' = TextScores(headlines, rs)[1]
                         /\ legal_s' = TextScores(headlines, rs)[2]
                         /\ pc' = "fin"
                         /\ report' = report
    /\ UNCHANGED <<company_name, ticker, stock, headlines, fin_s, exec_s, sector_mod,
                   bs, final_score, status>>

\* fin_s = self._calculate_fin_score(stock) if stock else None.  The locals of
\* the text step are not read again and are dropped here.
CalculateFinScore ==
    /\ pc = "fin"
    /\ IF stock = "None"
       THEN fin_s' = None
       ELSE \E b \in BalanceSheets : fin_s' = FinScore(b)
    /\ headlines' = <<>>
    /\ clf' = <<>>
    /\ results' = <<>>
    /\ pc' = "exec"
    /\ UNCHANGED <<company_name, ticker, stock, analyzer_calls, news_s, legal_s,
                   exec_s, sector_mod, bs, final_score, status, report>>

\* exec_s = self._calculate_exec_score(stock) if stock else None
CalculateExecScore ==
    /\ pc = "exec"
    /\ IF stock = "None"
       THEN exec_s' = None
       ELSE \E info \in OfficerInfos : exec_s' = ExecScore(info)
    /\ pc' = "sector"
    /\ UNCHANGED <<company_name, ticker, stock, headlines, clf, results, analyzer_calls,
                   news_s, legal_s, fin_s, sector_mod, bs, final_score, status, report>>

\* sector_mod, sector_name = self._get_sector_modifier(stock)
GetSectorModifier ==
    /\ pc = "sector"
    /\ \E info \in SectorInfos : sector_mod' = SectorModifier(stock # "None", info)
    /\ pc' = "aggregate"
    /\ UNCHANGED <<company_name, ticker, stock, headlines, clf, results, analyzer_calls,
                   news_s, legal_s, fin_s, exec_s, bs, final_score, status, report>>

\* the rest of run, and the divider printed before the next prompt
Aggregate ==
    /\ pc = "aggregate"
    /\ IF ActiveMetrics(RawScores) = <<>>
       THEN /\ report' = "critical_error"
            /\ UNCHANGED <<final_score, status>>
       ELSE /\ final_score' = FinalScore(RawScores, sector_mod)
            /\ status' = StatusOf(FinalScore(RawScores, sector_mod))
            /\ report' = "scores"
    /\ pc' = "prompt"
    /\ UNCHANGED <<company_name, ticker, stock, headlines, clf, results, analyzer_calls,
                   news_s, legal_s, fin_s, exec_s, sector_mod, bs>>

Next ==
    \/ Prompt
    \/ Construct
    \/ GetHeadlines
    \/ CalculateTextScores
    \/ CalculateFinScore
    \/ CalculateExecScore
    \/ GetSectorModifier
    \/ Aggregate

Spec == Init /\ [][Next]_vars

(***************************************************************************)
(* The calculators and the aggregation on their own: each specification    *)
(* starts at the entry of one of them, with its inputs drawn from a        *)
(* bounded set, and applies it.                                            *)
(***************************************************************************)
ShortTitles == { T_FraudLawsuit, T_Sued, T_Profit, T_Bankruptcy, T_Probe }

\* the titles the long feed leaves in the set: more than MaxScored
LongTitleSet == CollectTitles(SubSeq(LongFeed, 1, Min(FeedCap, Len(LongFeed))), 1, "Acme", {})

\* the lists _get_headlines may hand over
HeadlineLists ==
    UNION { Orderings(S) : S \in { T \in SUBSET ShortTitles : Cardinality(T) <= MaxHeadlines } }
        \cup Orderings(LongTitleSet)

Blank ==
    /\ company_name = "Acme"
    /\ clf = <<>>
    /\ results = <<>>
    /\ analyzer_calls = 0
    /\ news_s = None
    /\ legal_s = None
    /\ fin_s = None
    /\ exec_s = None
    /\ sector_mod = None
    /\ bs = None
    /\ final_score = None
    /\ status = "None"
    /\ report = "none"

\* at the call of _calculate_text_scores
InitText ==
    /\ pc = "text"
    /\ ticker \in { "None", "ACME" }
    /\ stock = IF ticker # "None" THEN "Ticker" ELSE "None"
    /\ headlines \in HeadlineLists
    /\ Blank

SpecText == InitText /\ [][CalculateTextScores]_vars

\* at the call of _calculate_fin_score, bs being what stock.balance_sheet gives
InitFin ==
    /\ pc = "fin_call"
    /\ ticker = "ACME"
    /\ stock = "Ticker"
    /\ headlines = <<>>
    /\ company_name = "Acme"
    /\ clf = <<>>
    /\ results = <<>>
    /\ analyzer_calls = 0
    /\ news_s = R(0)
    /\ legal_s = R(0)
    /\ fin_s = None
    /\ exec_s = None
    /\ sector_mod = None
    /\ bs \in BalanceSheets
    /\ final_score = None
    /\ status = "None"
    /\ report = "none"

\* _calculate_fin_score(stock)
FinScoreCall ==
    /\ pc = "fin_call"
    /\ fin_s' = FinScore(bs)
    /\ pc' = "fin_done"
    /\ UNCHANGED <<company_name, ticker, stock, headlines, clf, results, analyzer_calls,
                   news_s, legal_s, exec_s, sector_mod, bs, final_score, status, report>>

SpecFin == InitFin /\ [][FinScoreCall]_vars

\* the values the four signals are drawn from at the aggregation
SignalValues(k) ==
    CASE k = "fin" -> { None, R(0), R(70), R(100), R(-150), NInf }
      [] k = "legal" -> { None, R(0), R(40), R(63), R(100) }
      [] k = "exec" -> { None, R(50), R(70), R(85) }
      [] k = "news" -> { None, R(0), R(20), Frac(39999, 1000), Frac(69999, 1000), R(90) }

\* at raw_scores = {...} in run
InitAgg ==
    /\ pc = "aggregate"
    /\ ticker \in { "None", "ACME" }
    /\ stock = IF ticker # "None" THEN "Ticker" ELSE "None"
    /\ headlines = <<>>
    /\ company_name = "Acme"
    /\ clf = <<>>
    /\ results = <<>>
    /\ analyzer_calls = 0
    /\ fin_s \in SignalValues("fin")
    /\ legal_s \in SignalValues("legal")
    /\ exec_s \in SignalValues("exec")
    /\ news_s \in SignalValues("news")
    /\ sector_mod \in { Frac(90, 100), R(1), Frac(115, 100) }
    /\ bs = None
    /\ final_score = None
    /\ status = "None"
    /\ report = "none"

SpecAgg == InitAgg /\ [][Aggregate]_vars

(***************************************************************************)
(* Properties.                                                             *)
(***************************************************************************)
RECURSIVE SumFn(_, _)
SumFn(f, S) ==
    IF S = {} THEN R(0)
    ELSE LET x == CHOOSE y \in S : TRUE
         IN  Add(f[x], SumFn(f, S \ { x }))

Signals == { "fin", "legal", "exec", "news" }

Present == { k \in Signals : RawScores[k] # None }

AllAbsent == Present = {}

\* run has returned or has been left by an exception
RunEnded == report \in { "scores", "critical_error", "traceback_run" }

\* run has returned
RunReturned == pc = "prompt" /\ report \in { "scores", "critical_error" }

\* 0 <= x <= 100
InRange(x) == IsFinite(x) /\ 0 <= x[1] /\ x[1] <= 100 * x[2]

\* C1: whatever the external calls do, the process never aborts: no exception
\* leaves the construction of the radar, run or the prompt loop.
C1_NeverAborts == pc # "aborted" /\ report \notin { "traceback_init", "traceback_run" }

\* C2: with S the signals that have a value and W the sum of their weights, the
\* final score is min(100, m * (sum over S of score * weight) / W); the
\* renormalized weights over S sum to 1; with a single signal x it is min(100, x*m).
C2_Renormalized ==
    (RunReturned /\ Present # {}) =>
        LET S == Present
            W == SumFn(weights, S)
            weighted == [k \in S |-> Mul(RawScores[k], weights[k])]
            share == [k \in S |-> Div(weights[k], W)]
        IN  /\ final_score = PyMin(R(100), Mul(sector_mod, Div(SumFn(weighted, S), W)))
            /\ SumFn(share, S) = R(1)
            /\ \A k \in S :
                  S = { k } => final_score = PyMin(R(100), Mul(RawScores[k], sector_mod))

\* a run over a proper subset of the signals, with a modifier other than 1
C2_Witness ==
    /\ RunReturned
    /\ Present = { "legal", "news" }
    /\ sector_mod = Frac(115, 100)
    /\ legal_s = R(40)
    /\ news_s = R(20)
    /\ final_score = Frac(7475, 200)

\* C3: the status is critical exactly when final >= 70, caution exactly when
\* 40 <= final < 70 and stable exactly when final < 40.
C3_StatusBands ==
    (RunReturned /\ report = "scores") =>
        /\ status \in { "CRITICAL", "CAUTION", "STABLE" }
        /\ (status = "CRITICAL") <=> (final_score[1] >= 70 * final_score[2])
        /\ (status = "CAUTION") <=>
              (final_score[1] >= 40 * final_score[2] /\ final_score[1] < 70 * final_score[2])
        /\ (status = "STABLE") <=> (final_score[1] < 40 * final_score[2])

\* a final score of exactly 70, reported critical
C3_Witness == RunReturned /\ final_score = R(70) /\ status = "CRITICAL"

\* all four signals are absent: none has a value, and fin and exec are not
\* merely still to be computed
AllFourAbsent ==
    /\ AllAbsent
    /\ stock = "None" \/ pc \in { "sector", "aggregate", "prompt" }

\* C4: when all four signals are absent, run reports the critical error and the
\* session goes on to the next prompt; nothing else is escalated as a failure.
C4_AllAbsentReported ==
    /\ (RunEnded /\ AllFourAbsent) => (report = "critical_error" /\ pc = "prompt")
    /\ (report \in { "critical_error", "traceback_run" }) => AllFourAbsent

\* C5: every signal is absent or in [0, 100], and so is the final score.
C5_ScoresInRange ==
    /\ \A k \in Signals : RawScores[k] = None \/ InRange(RawScores[k])
    /\ final_score = None \/ InRange(final_score)

\* the failures C6 lists
FinFailure(b) ==
    \/ ~b.ok
    \/ DOMAIN b.rows = {}
    \/ "Total Assets" \notin DOMAIN b.rows
    \/ "Current Assets" \notin DOMAIN b.rows
    \/ "Current Liabilities" \notin DOMAIN b.rows
    \/ (\A l \in Range(LiabilityLabels) : l \notin DOMAIN b.rows)
    \/ b.rows["Total Assets"] = 0
    \/ b.rows["Current Liabilities"] = 0

\* C6: the financial calculator returns no value exactly when a lookup fails or
\* a divisor is zero, and a score otherwise.
C6_FinNoValueOnFailure == pc = "fin_done" => ((fin_s = None) <=> FinFailure(bs))

\* the order and the keywords C7 names
C7_Order ==
    <<"bankruptcy", "fraud", "indictment", "sec", "investigation", "probe",
      "lawsuit", "sued", "litigation">>

C7_BaseWeight(kw) ==
    LET j == CHOOSE i \in 1..Len(SeverityMap) : SeverityMap[i][1] = kw
    IN  SeverityMap[j][2]

\* what one scored headline adds: the first keyword of the order it holds
C7_Contribution(h_lower, r) ==
    LET hits == { j \in 1..Len(C7_Order) : Contains(h_lower, C7_Order[j]) }
    IN  IF hits = {} THEN R(0)
        ELSE LET first == CHOOSE j \in hits : \A k \in hits : j <= k
             IN  IF r.label = "negative"
                 THEN Mul(R(C7_BaseWeight(C7_Order[first])), r.score)
                 ELSE Mul(R(C7_BaseWeight(C7_Order[first])), Frac(2, 10))

\* C7: the legal score is min(100, sum of the contributions of the scored
\* headlines), each headline contributing once, by its first keyword.
C7_LegalFirstKeyword ==
    (pc = "fin" /\ headlines # <<>>) =>
        LET n == Len(results)
            c == [i \in 1..n |-> C7_Contribution(Lower(headlines[i]), results[i])]
            total == SumFn(c, 1..n)
        IN  legal_s = (IF Lt(R(100), total) THEN R(100) ELSE total)

\* a negative headline holding both fraud and lawsuit, scored with two others
C7_Witness ==
    /\ pc = "fin"
    /\ Len(headlines) = 3
    /\ \E i \in 1..3 :
          /\ headlines[i] = T_FraudLawsuit
          /\ results[i] = [label |-> "negative", score |-> Frac(9, 10)]
    /\ \E i \in 1..3 : headlines[i] = T_Profit
    /\ \E i \in 1..3 : headlines[i] = T_Sued /\ results[i].label = "neutral"
    /\ legal_s = R(67)

C8_Delta(r) ==
    CASE r.label = "negative" -> Mul(r.score, R(100))
      [] r.label = "positive" -> Mul(r.score, R(-50))
      [] r.label = "neutral" -> R(20)

\* C8: no headline gives (0, 0) and no classifier call; L headlines give
\* clamp(0, 100, A / n) with n = min(20, L) and A summed over the first n.
C8_NewsAverage ==
    pc = "fin" =>
        IF headlines = <<>>
        THEN news_s = R(0) /\ legal_s = R(0) /\ analyzer_calls = 0
        ELSE LET n == IF Len(headlines) < 20 THEN Len(headlines) ELSE 20
                 d == [i \in 1..n |-> C8_Delta(clf[Key(headlines[i])])]
                 avg == Div(SumFn(d, 1..n), R(n))
             IN  /\ Len(results) = n
                 /\ analyzer_calls = 1
                 /\ news_s = (IF Lt(avg, R(0)) THEN R(0)
                              ELSE IF Lt(R(100), avg) THEN R(100) ELSE avg)

\* more than 20 headlines, the average of the 20 scored strictly inside (0, 100)
C8_Witness ==
    /\ pc = "fin"
    /\ Len(headlines) > 20
    /\ Len(results) = 20
    /\ Lt(R(0), news_s)
    /\ Lt(news_s, R(100))
    /\ \E i \in 1..20 : headlines[i] = T_FraudLawsuit

\* C9: at the aggregation legal and news have a value, so the available weight
\* is at least 0.40 and the critical error is never reported; no ticker and no
\* headline gives a final score of 0 and status stable.
C9_TextSignalsPresent ==
    /\ (pc = "fin" => ((headlines = <<>>) <=> (analyzer_calls = 0)))
    /\ (pc = "aggregate" \/ RunReturned) =>
          /\ legal_s # None /\ news_s # None
          /\ { "legal", "news" } \subseteq Present
          /\ ~Lt(SumFn(weights, Present), Frac(40, 100))
          /\ report # "critical_error"
    /\ (RunReturned /\ ticker = "None" /\ analyzer_calls = 0) =>
          (report = "scores" /\ final_score = R(0) /\ status = "STABLE")

\* a company with no ticker and no headline, reported stable at 0
C9_Witness ==
    /\ RunReturned
    /\ ticker = "None"
    /\ analyzer_calls = 0
    /\ final_score = R(0)
    /\ status = "STABLE"

\* C10: every enumeration of the collected set gives the scores of this run.
C10_OrderIndependent ==
    (pc = "fin" /\ headlines # <<>>) =>
        \A o \in Orderings(Range(headlines)) :
            TextScores(o, Analyze(clf, Truncate(o))) = <<news_s, legal_s>>

====
